---------------------------- MODULE Spec2Model ----------------------------
(***************************************************************************)
(* A model of lib/emscripten/src/lib.rs: the address-space layout computed *)
(* by EmscriptenGlobals::new, the seeding of guest memory, the import      *)
(* table built by generate_emscripten_env, the launch protocol of          *)
(* run_emscripten_instance with its argument marshaling, and the           *)
(* per-instance jump-buffer table of EmscriptenData.                       *)
(*                                                                         *)
(* Guest memory is a byte map with a sparse domain (the bytes written so   *)
(* far); a u32 is stored little-endian, as the host's u32 view stores it.  *)
(* All addresses of the model stay far below 2^32, so u32 arithmetic never *)
(* wraps in it.                                                            *)
(***************************************************************************)
EXTENDS Integers, Sequences, FiniteSets, TLC

VARIABLES
    pc,            \* position of the embedder: bootstrap, env, instantiate, launch
    static_bump,   \* the static-data size the layout is computed for
    memory_min,    \* the module-declared minimum memory size, in pages
    data,          \* EmscriptenGlobals.data (EmscriptenGlobalsData) or NoData
    memory,        \* guest linear memory: byte address -> byte (bytes written)
    import_object, \* the ImportObject: <<namespace, name>> -> implementation
    registrations, \* how many times each <<namespace, name>> was registered
    module,        \* the guest module being run: its imports and exports
    emdata,        \* the EmscriptenData of the running launch, or NoData
    stack_ptr,     \* the guest's stack pointer (guest STACKTOP), moved by stackAlloc
    args_in,       \* the (path, args) given to run_emscripten_instance
    log,           \* the export lookups and guest invocations of the host, in order
    marshal,       \* what store_module_arguments did, or NoData
    result,        \* the CallResult returned by run_emscripten_instance, or NoData
    tokens,        \* the tokens returned by __setjmp so far, in order
    jump           \* the outcome of the last __longjmp, or NoData

vars == <<pc, static_bump, memory_min, data, memory, import_object, registrations,
          module, emdata, stack_ptr, args_in, log, marshal, result, tokens, jump>>

NoData == [none |-> TRUE]

(***************************************************************************)
(* Program constants.                                                      *)
(***************************************************************************)
TOTAL_STACK == 5242880

DYNAMICTOP_PTR_DIFF == 1088

STATIC_BUMP == 215536

GLOBAL_BASE == 1024

STATIC_BASE == GLOBAL_BASE

\* The alignment boundary of align_memory and static_alloc.
ALIGNMENT == 16

(***************************************************************************)
(* Bounds of the model.                                                    *)
(***************************************************************************)
\* Static-data sizes 0..MaxStaticBump are tried beside STATIC_BUMP itself.
MaxStaticBump == 48

\* The longest argument list given to run_emscripten_instance.
MaxArgs == 2

\* The most __setjmp calls a guest makes in one launch.
MaxMarks == 3

(***************************************************************************)
(* storage: align_memory and static_alloc.                                 *)
(***************************************************************************)
\* align_memory(ptr): ptr rounded up to the next multiple of 16.
align_memory(ptr) == ((ptr + (ALIGNMENT - 1)) \div ALIGNMENT) * ALIGNMENT

\* static_alloc(&mut static_top, size): returns the old top and advances the
\* top by size, rounded up to the alignment boundary.
static_alloc(static_top, size) ==
    [ret |-> static_top, static_top |-> align_memory(static_top + size)]

(***************************************************************************)
(* Guest memory.                                                           *)
(***************************************************************************)
\* The number of bytes of a memory of the given number of 64 KiB pages.
MemoryBytes(pages) == pages * 65536

\* A u32 as the four bytes the host stores, least significant first.
LE32(v) == << v % 256, (v \div 256) % 256, (v \div 65536) % 256,
              (v \div 16777216) % 256 >>

WriteBytes(mem, addr, bytes) ==
    [a \in (DOMAIN mem) \cup (addr .. (addr + Len(bytes) - 1)) |->
        IF a >= addr /\ a < addr + Len(bytes) THEN bytes[a - addr + 1] ELSE mem[a]]

\* A u32 stored at a byte address.
WriteU32At(mem, addr, value) == WriteBytes(mem, addr, LE32(value))

\* memory.view::<u32>()[index].set(value)
SetU32(mem, index, value) == WriteU32At(mem, index * 4, value)

\* A byte never written has no defined value: it reads as -1, which no byte is.
ByteAt(mem, a) == IF a \in DOMAIN mem THEN mem[a] ELSE -1

\* memory.view::<u32>()[index].get()
GetU32(mem, index) ==
    ByteAt(mem, index * 4) + ByteAt(mem, index * 4 + 1) * 256
      + ByteAt(mem, index * 4 + 2) * 65536 + ByteAt(mem, index * 4 + 3) * 16777216

EmptyMemory == [a \in {} |-> 0]

(***************************************************************************)
(* EmscriptenGlobals::new: the layout.                                     *)
(***************************************************************************)
\* A slip the layout could have: the scratch pointer taken after the top moved.
EmscriptenGlobalsData_TempAfterBump(bump) ==
    LET top0 == STATIC_BASE + bump
        top1 == top0 + 16
        temp_double_ptr == top1
        alloc == static_alloc(top1, 4)
        stacktop == align_memory(alloc.static_top)
    IN [abort |-> 0, stacktop |-> stacktop, stack_max |-> stacktop + TOTAL_STACK,
        dynamictop_ptr |-> alloc.ret, memory_base |-> STATIC_BASE, table_base |-> 0,
        temp_double_ptr |-> temp_double_ptr]

\* A slip the layout could have: the stack top left unaligned.
EmscriptenGlobalsData_NoAlign(bump) ==
    LET top0 == STATIC_BASE + bump
        temp_double_ptr == top0
        top1 == top0 + 16
        stacktop == top1 + 4
    IN [abort |-> 0, stacktop |-> stacktop, stack_max |-> stacktop + TOTAL_STACK,
        dynamictop_ptr |-> top1, memory_base |-> STATIC_BASE, table_base |-> 0,
        temp_double_ptr |-> temp_double_ptr]

\* The `data` block of EmscriptenGlobals::new, for a given static_bump.
EmscriptenGlobalsData(bump) ==
    LET top0 == STATIC_BASE + bump
        memory_base == STATIC_BASE
        table_base == 0
        temp_double_ptr == top0
        top1 == top0 + 16
        alloc == static_alloc(top1, 4)
        dynamictop_ptr == alloc.ret
        stacktop == align_memory(alloc.static_top)
        stack_max == stacktop + TOTAL_STACK
    IN [abort |-> 0, stacktop |-> stacktop, stack_max |-> stack_max,
        dynamictop_ptr |-> dynamictop_ptr, memory_base |-> memory_base,
        table_base |-> table_base, temp_double_ptr |-> temp_double_ptr]

\* The dynamic_base of emscripten_set_up_memory.
SetUpDynamicBase(globals) == align_memory(globals.stack_max)

\* A slip the seeding could have: the byte offset used as the word index.
SetUpIndex_ByteOffset(globals) == globals.dynamictop_ptr

\* The index of the u32 view that emscripten_set_up_memory writes.
SetUpIndex(globals) == globals.dynamictop_ptr \div 4

\* emscripten_set_up_memory succeeds only when the index is inside the view.
SetUpInBounds(pages, globals) == SetUpIndex(globals) * 4 + 4 <= MemoryBytes(pages)

emscripten_set_up_memory(mem, globals) ==
    SetU32(mem, SetUpIndex(globals), SetUpDynamicBase(globals))

(***************************************************************************)
(* generate_emscripten_env: the import table.                              *)
(***************************************************************************)
Fn(target) == [kind |-> "func", target |-> target]

GlobalI32(v) == [kind |-> "global_i32", i32 |-> v]

GlobalF64(v) == [kind |-> "global_f64", f64 |-> v]

Shared(what) == [kind |-> "export", object |-> what]

Reg(ns, name, bind) == [ns |-> ns, name |-> name, bind |-> bind]

\* The "env" namespace of the imports! literal, in source order.
EnvNamespace(globals) == <<
    Reg("env", "memory", Shared("memory")),
    Reg("env", "table", Shared("table")),
    Reg("env", "STACKTOP", GlobalI32(globals.stacktop)),
    Reg("env", "STACK_MAX", GlobalI32(globals.stack_max)),
    Reg("env", "DYNAMICTOP_PTR", GlobalI32(globals.dynamictop_ptr)),
    Reg("env", "tableBase", GlobalI32(globals.table_base)),
    Reg("env", "__table_base", GlobalI32(globals.table_base)),
    Reg("env", "ABORT", GlobalI32(globals.abort)),
    Reg("env", "memoryBase", GlobalI32(globals.memory_base)),
    Reg("env", "__memory_base", GlobalI32(globals.memory_base)),
    Reg("env", "tempDoublePtr", GlobalI32(globals.temp_double_ptr)),
    Reg("env", "printf", Fn("crate::io::printf")),
    Reg("env", "putchar", Fn("crate::io::putchar")),
    Reg("env", "___lock", Fn("crate::lock::___lock")),
    Reg("env", "___unlock", Fn("crate::lock::___unlock")),
    Reg("env", "___wait", Fn("crate::lock::___wait")),
    Reg("env", "___assert_fail", Fn("crate::env::___assert_fail")),
    Reg("env", "_getenv", Fn("crate::env::_getenv")),
    Reg("env", "_setenv", Fn("crate::env::_setenv")),
    Reg("env", "_putenv", Fn("crate::env::_putenv")),
    Reg("env", "_unsetenv", Fn("crate::env::_unsetenv")),
    Reg("env", "_getpwnam", Fn("crate::env::_getpwnam")),
    Reg("env", "_getgrnam", Fn("crate::env::_getgrnam")),
    Reg("env", "___buildEnvironment", Fn("crate::env::___build_environment")),
    Reg("env", "___setErrNo", Fn("crate::errno::___seterrno")),
    Reg("env", "_getpagesize", Fn("crate::env::_getpagesize")),
    Reg("env", "_sysconf", Fn("crate::env::_sysconf")),
    Reg("env", "_getaddrinfo", Fn("crate::env::_getaddrinfo")),
    Reg("env", "nullFunc_i", Fn("crate::nullfunc::nullfunc_i")),
    Reg("env", "nullFunc_ii", Fn("crate::nullfunc::nullfunc_ii")),
    Reg("env", "nullFunc_iii", Fn("crate::nullfunc::nullfunc_iii")),
    Reg("env", "nullFunc_iiii", Fn("crate::nullfunc::nullfunc_iiii")),
    Reg("env", "nullFunc_iiiii", Fn("crate::nullfunc::nullfunc_iiiii")),
    Reg("env", "nullFunc_iiiiii", Fn("crate::nullfunc::nullfunc_iiiiii")),
    Reg("env", "nullFunc_v", Fn("crate::nullfunc::nullfunc_v")),
    Reg("env", "nullFunc_vi", Fn("crate::nullfunc::nullfunc_vi")),
    Reg("env", "nullFunc_vii", Fn("crate::nullfunc::nullfunc_vii")),
    Reg("env", "nullFunc_viii", Fn("crate::nullfunc::nullfunc_viii")),
    Reg("env", "nullFunc_viiii", Fn("crate::nullfunc::nullfunc_viiii")),
    Reg("env", "nullFunc_viiiii", Fn("crate::nullfunc::nullfunc_viiiii")),
    Reg("env", "nullFunc_viiiiii", Fn("crate::nullfunc::nullfunc_viiiiii")),
    Reg("env", "___syscall1", Fn("crate::syscalls::___syscall1")),
    Reg("env", "___syscall3", Fn("crate::syscalls::___syscall3")),
    Reg("env", "___syscall4", Fn("crate::syscalls::___syscall4")),
    Reg("env", "___syscall5", Fn("crate::syscalls::___syscall5")),
    Reg("env", "___syscall6", Fn("crate::syscalls::___syscall6")),
    Reg("env", "___syscall10", Fn("crate::syscalls::___syscall10")),
    Reg("env", "___syscall12", Fn("crate::syscalls::___syscall12")),
    Reg("env", "___syscall15", Fn("crate::syscalls::___syscall15")),
    Reg("env", "___syscall20", Fn("crate::syscalls::___syscall20")),
    Reg("env", "___syscall39", Fn("crate::syscalls::___syscall39")),
    Reg("env", "___syscall38", Fn("crate::syscalls::___syscall38")),
    Reg("env", "___syscall40", Fn("crate::syscalls::___syscall40")),
    Reg("env", "___syscall54", Fn("crate::syscalls::___syscall54")),
    Reg("env", "___syscall57", Fn("crate::syscalls::___syscall57")),
    Reg("env", "___syscall60", Fn("crate::syscalls::___syscall60")),
    Reg("env", "___syscall63", Fn("crate::syscalls::___syscall63")),
    Reg("env", "___syscall64", Fn("crate::syscalls::___syscall64")),
    Reg("env", "___syscall66", Fn("crate::syscalls::___syscall66")),
    Reg("env", "___syscall75", Fn("crate::syscalls::___syscall75")),
    Reg("env", "___syscall85", Fn("crate::syscalls::___syscall85")),
    Reg("env", "___syscall91", Fn("crate::syscalls::___syscall191")),
    Reg("env", "___syscall97", Fn("crate::syscalls::___syscall97")),
    Reg("env", "___syscall102", Fn("crate::syscalls::___syscall102")),
    Reg("env", "___syscall110", Fn("crate::syscalls::___syscall110")),
    Reg("env", "___syscall114", Fn("crate::syscalls::___syscall114")),
    Reg("env", "___syscall122", Fn("crate::syscalls::___syscall122")),
    Reg("env", "___syscall140", Fn("crate::syscalls::___syscall140")),
    Reg("env", "___syscall142", Fn("crate::syscalls::___syscall142")),
    Reg("env", "___syscall145", Fn("crate::syscalls::___syscall145")),
    Reg("env", "___syscall146", Fn("crate::syscalls::___syscall146")),
    Reg("env", "___syscall168", Fn("crate::syscalls::___syscall168")),
    Reg("env", "___syscall180", Fn("crate::syscalls::___syscall180")),
    Reg("env", "___syscall181", Fn("crate::syscalls::___syscall181")),
    Reg("env", "___syscall191", Fn("crate::syscalls::___syscall191")),
    Reg("env", "___syscall192", Fn("crate::syscalls::___syscall192")),
    Reg("env", "___syscall194", Fn("crate::syscalls::___syscall194")),
    Reg("env", "___syscall195", Fn("crate::syscalls::___syscall195")),
    Reg("env", "___syscall196", Fn("crate::syscalls::___syscall196")),
    Reg("env", "___syscall197", Fn("crate::syscalls::___syscall197")),
    Reg("env", "___syscall199", Fn("crate::syscalls::___syscall199")),
    Reg("env", "___syscall201", Fn("crate::syscalls::___syscall201")),
    Reg("env", "___syscall202", Fn("crate::syscalls::___syscall202")),
    Reg("env", "___syscall212", Fn("crate::syscalls::___syscall212")),
    Reg("env", "___syscall220", Fn("crate::syscalls::___syscall220")),
    Reg("env", "___syscall221", Fn("crate::syscalls::___syscall221")),
    Reg("env", "___syscall268", Fn("crate::syscalls::___syscall268")),
    Reg("env", "___syscall272", Fn("crate::syscalls::___syscall272")),
    Reg("env", "___syscall295", Fn("crate::syscalls::___syscall295")),
    Reg("env", "___syscall300", Fn("crate::syscalls::___syscall300")),
    Reg("env", "___syscall330", Fn("crate::syscalls::___syscall330")),
    Reg("env", "___syscall334", Fn("crate::syscalls::___syscall334")),
    Reg("env", "___syscall340", Fn("crate::syscalls::___syscall340")),
    Reg("env", "abort", Fn("crate::process::em_abort")),
    Reg("env", "_abort", Fn("crate::process::_abort")),
    Reg("env", "abortStackOverflow", Fn("crate::process::abort_stack_overflow")),
    Reg("env", "_llvm_trap", Fn("crate::process::_llvm_trap")),
    Reg("env", "_fork", Fn("crate::process::_fork")),
    Reg("env", "_exit", Fn("crate::process::_exit")),
    Reg("env", "_system", Fn("crate::process::_system")),
    Reg("env", "_popen", Fn("crate::process::_popen")),
    Reg("env", "_endgrent", Fn("crate::process::_endgrent")),
    Reg("env", "_execve", Fn("crate::process::_execve")),
    Reg("env", "_kill", Fn("crate::process::_kill")),
    Reg("env", "_llvm_stackrestore", Fn("crate::process::_llvm_stackrestore")),
    Reg("env", "_llvm_stacksave", Fn("crate::process::_llvm_stacksave")),
    Reg("env", "_raise", Fn("crate::process::_raise")),
    Reg("env", "_sem_init", Fn("crate::process::_sem_init")),
    Reg("env", "_sem_post", Fn("crate::process::_sem_post")),
    Reg("env", "_sem_wait", Fn("crate::process::_sem_wait")),
    Reg("env", "_getgrent", Fn("crate::process::_getgrent")),
    Reg("env", "_sched_yield", Fn("crate::process::_sched_yield")),
    Reg("env", "_setgrent", Fn("crate::process::_setgrent")),
    Reg("env", "_setgroups", Fn("crate::process::_setgroups")),
    Reg("env", "_setitimer", Fn("crate::process::_setitimer")),
    Reg("env", "_usleep", Fn("crate::process::_usleep")),
    Reg("env", "_utimes", Fn("crate::process::_utimes")),
    Reg("env", "_waitpid", Fn("crate::process::_waitpid")),
    Reg("env", "_sigemptyset", Fn("crate::signal::_sigemptyset")),
    Reg("env", "_sigaddset", Fn("crate::signal::_sigaddset")),
    Reg("env", "_sigprocmask", Fn("crate::signal::_sigprocmask")),
    Reg("env", "_sigaction", Fn("crate::signal::_sigaction")),
    Reg("env", "_signal", Fn("crate::signal::_signal")),
    Reg("env", "_sigsuspend", Fn("crate::signal::_sigsuspend")),
    Reg("env", "abortOnCannotGrowMemory", Fn("crate::memory::abort_on_cannot_grow_memory")),
    Reg("env", "_emscripten_memcpy_big", Fn("crate::memory::_emscripten_memcpy_big")),
    Reg("env", "_emscripten_get_heap_size", Fn("crate::memory::_emscripten_get_heap_size")),
    Reg("env", "_emscripten_resize_heap", Fn("crate::memory::_emscripten_resize_heap")),
    Reg("env", "enlargeMemory", Fn("crate::memory::enlarge_memory")),
    Reg("env", "getTotalMemory", Fn("crate::memory::get_total_memory")),
    Reg("env", "___map_file", Fn("crate::memory::___map_file")),
    Reg("env", "___cxa_allocate_exception", Fn("crate::exception::___cxa_allocate_exception")),
    Reg("env", "___cxa_throw", Fn("crate::exception::___cxa_throw")),
    Reg("env", "_gettimeofday", Fn("crate::time::_gettimeofday")),
    Reg("env", "_clock_gettime", Fn("crate::time::_clock_gettime")),
    Reg("env", "___clock_gettime", Fn("crate::time::_clock_gettime")),
    Reg("env", "_clock", Fn("crate::time::_clock")),
    Reg("env", "_difftime", Fn("crate::time::_difftime")),
    Reg("env", "_asctime", Fn("crate::time::_asctime")),
    Reg("env", "_asctime_r", Fn("crate::time::_asctime_r")),
    Reg("env", "_localtime", Fn("crate::time::_localtime")),
    Reg("env", "_time", Fn("crate::time::_time")),
    Reg("env", "_strftime", Fn("crate::time::_strftime")),
    Reg("env", "_localtime_r", Fn("crate::time::_localtime_r")),
    Reg("env", "_gmtime_r", Fn("crate::time::_gmtime_r")),
    Reg("env", "_mktime", Fn("crate::time::_mktime")),
    Reg("env", "_gmtime", Fn("crate::time::_gmtime")),
    Reg("env", "f64-rem", Fn("crate::math::f64_rem")),
    Reg("env", "_llvm_log10_f64", Fn("crate::math::_llvm_log10_f64")),
    Reg("env", "_llvm_log2_f64", Fn("crate::math::_llvm_log2_f64")),
    Reg("env", "_llvm_log10_f32", Fn("crate::math::_llvm_log10_f32")),
    Reg("env", "_llvm_log2_f32", Fn("crate::math::_llvm_log2_f64")),
    Reg("env", "_emscripten_random", Fn("crate::math::_emscripten_random")),
    Reg("env", "__setjmp", Fn("crate::jmp::__setjmp")),
    Reg("env", "__longjmp", Fn("crate::jmp::__longjmp")),
    Reg("env", "_dlclose", Fn("crate::linking::_dlclose")),
    Reg("env", "_dlerror", Fn("crate::linking::_dlerror")),
    Reg("env", "_dlopen", Fn("crate::linking::_dlopen")),
    Reg("env", "_dlsym", Fn("crate::linking::_dlsym"))
>>

\* A slip the literal could have: the second constant keyed like the first.
GlobalNamespace_DuplicateKey == <<
    Reg("global", "NaN", GlobalF64("NAN")),
    Reg("global", "NaN", GlobalF64("INFINITY"))
>>

\* The "global" namespace of the imports! literal, in source order.
GlobalNamespace == <<
    Reg("global", "NaN", GlobalF64("NAN")),
    Reg("global", "Infinity", GlobalF64("INFINITY"))
>>

\* The "global.Math" namespace of the imports! literal, in source order.
GlobalMathNamespace == <<
    Reg("global.Math", "pow", Fn("crate::math::pow"))
>>

\* The "asm2wasm" namespace of the imports! literal, in source order.
Asm2wasmNamespace == <<
    Reg("asm2wasm", "f64-rem", Fn("crate::math::f64_rem"))
>>

Registrations(globals) ==
    EnvNamespace(globals) \o GlobalNamespace \o GlobalMathNamespace \o Asm2wasmNamespace

KeyOf(r) == <<r.ns, r.name>>

\* The table the literal builds: each entry is inserted under its namespace and
\* name, and an entry inserted later under the same key replaces the earlier one.
BuildImportObject(regs) ==
    LET keys == {KeyOf(regs[i]) : i \in DOMAIN regs}
        last(k) == CHOOSE i \in DOMAIN regs :
                      /\ KeyOf(regs[i]) = k
                      /\ \A j \in DOMAIN regs : KeyOf(regs[j]) = k => j <= i
    IN [k \in keys |-> regs[last(k)].bind]

\* How many entries of the literal were inserted under each key.
CountRegistrations(regs) ==
    LET keys == {KeyOf(regs[i]) : i \in DOMAIN regs}
    IN [k \in keys |-> Cardinality({i \in DOMAIN regs : KeyOf(regs[i]) = k})]

\* Resolution of one import of a module against the table: exact match of the
\* (namespace, name) pair.
Resolves(imports, key) == key \in DOMAIN imports

(***************************************************************************)
(* The inputs: guest modules, program paths and argument lists.            *)
(***************************************************************************)
CTOR == "___emscripten_environ_constructor"

MAIN == "_main"

AllExports == {"_malloc", "_free", "_memalign", "_memset", "stackAlloc", CTOR, MAIN}

\* A module lacks at most MaxMissing of the exports above.
MaxMissing == 2

\* The entry point of a module declares 0..MaxMainParams parameters.
MaxMainParams == 3

ExportSets ==
    {AllExports \ S : S \in {T \in SUBSET AllExports : Cardinality(T) <= MaxMissing}}

\* Imports the table binds, in several namespaces.
GoodImports ==
    {<<"env", "memory">>, <<"env", "STACKTOP">>, <<"env", "printf">>,
     <<"env", "f64-rem">>, <<"asm2wasm", "f64-rem">>, <<"global", "NaN">>,
     <<"global.Math", "pow">>, <<"env", "__setjmp">>, <<"env", "__longjmp">>}

\* Import sets of a module: bound ones, a name bound in another namespace only,
\* and names that differ from a bound name by case or by a leading underscore.
ImportSets ==
    {GoodImports,
     GoodImports \cup {<<"global", "pow">>},
     GoodImports \cup {<<"asm2wasm", "printf">>},
     {<<"env", "Printf">>},
     {<<"env", "_printf">>, <<"env", "memory">>}}

Modules ==
    {m \in [imports : ImportSets, exports : ExportSets, main_params : 0 .. MaxMainParams] :
        MAIN \notin m.exports => m.main_params = 0}

\* Text is a sequence of non-zero bytes.
Strings == {<<>>, <<110>>, <<45, 102>>}

ArgLists == UNION {[1 .. n -> Strings] : n \in 0 .. MaxArgs}

\* What an invocation of a guest function returns to the host.
GuestErrors == {"unreachable", "memory_out_of_bounds"}

GuestResults == {"ok"} \cup GuestErrors

(***************************************************************************)
(* The log of what the host asks of the instance.                          *)
(***************************************************************************)
\* instance.func(name) or instance.dyn_func(name)
LookupEv(name) == [op |-> "lookup", name |-> name, args |-> <<>>, res |-> "none"]

\* instance.call(name, args), or a call through a cached handle
CallEv(name, args, res) == [op |-> "call", name |-> name, args |-> args, res |-> res]

Lookups(l) == SelectSeq(l, LAMBDA e : e.op = "lookup")

Calls(l) == SelectSeq(l, LAMBDA e : e.op = "call")

\* The invocation that is running ends with the result r.
Returned(l, r) ==
    LET i == CHOOSE k \in DOMAIN l : l[k].op = "call" /\ l[k].res = "running"
    IN [l EXCEPT ![i].res = r]

(***************************************************************************)
(* EmscriptenData::new.                                                    *)
(***************************************************************************)
\* A slip the table could have: a buffer in it before any mark.
NewJumps_Prefilled == << [mark |-> 0] >>

\* jumps: Vec::new()
NewJumps == << >>

\* A slip the resolution could have: memalign unwrapped like the other handles.
EmscriptenDataNew_MemalignRequired(exports) ==
    IF "_malloc" \notin exports
    THEN [panic |-> TRUE, lookups |-> <<"_malloc">>]
    ELSE IF "_free" \notin exports
    THEN [panic |-> TRUE, lookups |-> <<"_malloc", "_free">>]
    ELSE IF "_memalign" \notin exports
    THEN [panic |-> TRUE, lookups |-> <<"_malloc", "_free", "_memalign">>]
    ELSE IF "_memset" \notin exports
    THEN [panic |-> TRUE, lookups |-> <<"_malloc", "_free", "_memalign", "_memset">>]
    ELSE IF "stackAlloc" \notin exports
    THEN [panic |-> TRUE,
          lookups |-> <<"_malloc", "_free", "_memalign", "_memset", "stackAlloc">>]
    ELSE [panic |-> FALSE,
          lookups |-> <<"_malloc", "_free", "_memalign", "_memset", "stackAlloc">>,
          data |-> [malloc |-> "_malloc", free |-> "_free", memalign |-> "_memalign",
                    memset |-> "_memset", stack_alloc |-> "stackAlloc",
                    jumps |-> NewJumps]]

\* The handles are resolved in the order malloc, free, memalign, memset,
\* stackAlloc; unwrap panics at the first one missing, memalign excepted.
EmscriptenDataNew(exports) ==
    IF "_malloc" \notin exports
    THEN [panic |-> TRUE, lookups |-> <<"_malloc">>]
    ELSE IF "_free" \notin exports
    THEN [panic |-> TRUE, lookups |-> <<"_malloc", "_free">>]
    ELSE IF "_memset" \notin exports
    THEN [panic |-> TRUE, lookups |-> <<"_malloc", "_free", "_memalign", "_memset">>]
    ELSE IF "stackAlloc" \notin exports
    THEN [panic |-> TRUE,
          lookups |-> <<"_malloc", "_free", "_memalign", "_memset", "stackAlloc">>]
    ELSE [panic |-> FALSE,
          lookups |-> <<"_malloc", "_free", "_memalign", "_memset", "stackAlloc">>,
          data |-> [malloc |-> "_malloc", free |-> "_free",
                    memalign |-> IF "_memalign" \in exports THEN "_memalign" ELSE "None",
                    memset |-> "_memset", stack_alloc |-> "stackAlloc",
                    jumps |-> NewJumps]]

(***************************************************************************)
(* store_module_arguments and the stack allocation it relies on.           *)
(* A marshaling state st is [memory, sp, log].                             *)
(***************************************************************************)
\* The guest's stackAlloc: returns the stack pointer and advances it by size,
\* rounded up to 16.
stackAlloc(sp, size) == [ret |-> sp, sp |-> ((sp + size + 15) \div 16) * 16]

\* allocate_on_stack(ctx, count): count bytes from the guest's stackAlloc.
allocate_on_stack(st, count) ==
    LET a == stackAlloc(st.sp, count)
    IN [offset |-> a.ret,
        st |-> [memory |-> st.memory, sp |-> a.sp,
                log |-> Append(st.log, CallEv("stackAlloc", <<count>>, "ok"))]]

\* allocate_cstr_on_stack(ctx, s): the bytes of s and a NUL, on the guest stack.
allocate_cstr_on_stack(st, s) ==
    LET a == allocate_on_stack(st, Len(s) + 1)
    IN [offset |-> a.offset,
        st |-> [a.st EXCEPT !.memory = WriteBytes(@, a.offset, s \o <<0>>)]]

RECURSIVE StoreArgs(_, _, _)
\* The loop over args: each argument from the i-th on is written in turn.
StoreArgs(st, args, i) ==
    IF i > Len(args)
    THEN [st |-> st, ptrs |-> <<>>]
    ELSE LET a == allocate_cstr_on_stack(st, args[i])
             r == StoreArgs(a.st, args, i + 1)
         IN [st |-> r.st, ptrs |-> <<a.offset>> \o r.ptrs]

RECURSIVE WriteWords(_, _, _)
WriteWords(mem, addr, words) ==
    IF words = <<>> THEN mem
    ELSE WriteWords(WriteU32At(mem, addr, Head(words)), addr + 4, Tail(words))

\* A slip the marshaling could have: the path pointer left out of the array.
ArgvWords_NoPath(args_slice) == Tail(args_slice) \o <<0, 0>>

\* The words of the pointer array: the pointers of args_slice in slots
\* 0..argc-1, and argv_slice[argc] = 0.
ArgvWords(args_slice) == args_slice \o <<0>>

store_module_arguments(st, path, args) ==
    LET argc == Len(args) + 1
        p == allocate_cstr_on_stack(st, path)
        rest == StoreArgs(p.st, args, 1)
        args_slice == <<p.offset>> \o rest.ptrs
        arr == allocate_on_stack(rest.st, (argc + 1) * 4)
    IN [argc |-> argc, argv |-> arr.offset,
        st |-> [arr.st EXCEPT !.memory = WriteWords(@, arr.offset, ArgvWords(args_slice))]]

(***************************************************************************)
(* The initial states.                                                     *)
(***************************************************************************)
\* Memory sizes a module declares: one too small for the layout, one ample.
MemoryPages == {3, 256}

InitCommon ==
    /\ pc = "start"
    /\ memory_min \in MemoryPages
    /\ data = NoData
    /\ memory = EmptyMemory
    /\ import_object = << >>
    /\ registrations = << >>
    /\ module = NoData
    /\ emdata = NoData
    /\ stack_ptr = 0
    /\ args_in = NoData
    /\ log = << >>
    /\ marshal = NoData
    /\ result = NoData
    /\ tokens = << >>
    /\ jump = NoData

\* The program: the layout is computed for STATIC_BUMP.
Init == static_bump = STATIC_BUMP /\ InitCommon

\* The layout as a function of the static-data size.
InitLayout == static_bump \in (0 .. MaxStaticBump) \cup {STATIC_BUMP} /\ InitCommon

(***************************************************************************)
(* Bootstrap: EmscriptenGlobals::new, then generate_emscripten_env, then   *)
(* the instantiation of the module against the table.                      *)
(***************************************************************************)
EmscriptenGlobalsNew ==
    /\ pc = "start"
    /\ LET d == EmscriptenGlobalsData(static_bump)
       IN IF SetUpInBounds(memory_min, d)
          THEN /\ memory' = emscripten_set_up_memory(memory, d)
               /\ data' = d
               /\ pc' = "booted"
               /\ result' = result
          ELSE /\ pc' = "panic_bootstrap"
               /\ result' = [kind |-> "panic", what |-> "index out of bounds"]
               /\ UNCHANGED <<memory, data>>
    /\ UNCHANGED <<static_bump, memory_min, import_object, registrations, module,
                   emdata, stack_ptr, args_in, log, marshal, tokens, jump>>

GenerateEmscriptenEnv ==
    /\ pc = "booted"
    /\ import_object' = BuildImportObject(Registrations(data))
    /\ registrations' = CountRegistrations(Registrations(data))
    /\ pc' = "env"
    /\ UNCHANGED <<static_bump, memory_min, data, memory, module, emdata, stack_ptr,
                   args_in, log, marshal, result, tokens, jump>>

\* The module is instantiated against the table: every import of it must
\* resolve; the guest's stack pointer starts at the STACKTOP global.
Instantiate ==
    /\ pc = "env"
    /\ \E m \in Modules :
         /\ module' = m
         /\ LET unresolved == {k \in m.imports : ~Resolves(import_object, k)}
            IN IF unresolved = {}
               THEN /\ pc' = "instantiated"
                    /\ stack_ptr' = import_object[<<"env", "STACKTOP">>].i32
                    /\ result' = result
               ELSE /\ pc' = "link_error"
                    /\ result' = [kind |-> "link_error", unresolved |-> unresolved]
                    /\ stack_ptr' = stack_ptr
    /\ UNCHANGED <<static_bump, memory_min, data, memory, import_object, registrations,
                   emdata, args_in, log, marshal, tokens, jump>>

(***************************************************************************)
(* run_emscripten_instance.                                                *)
(***************************************************************************)
\* A slip the launch could have: the constructor called without the check.
CtorExported_Unchecked(exports) == TRUE

\* if let Ok(_func) = instance.dyn_func("___emscripten_environ_constructor")
CtorExported(exports) == CTOR \in exports

\* A slip the launch could have: the constructor's result dropped.
Failed_Ignored(r) == FALSE

\* The ? after instance.call: a failure ends the launch with that failure.
Failed(r) == r # "ok"

\* A slip the dispatch could have: every other arity treated like zero.
MainDispatch_DefaultNone(num_params) ==
    IF num_params = 2 THEN "argv" ELSE "none"

\* match num_params { 2 => ..., 0 => ..., _ => panic!(...) }
MainDispatch(num_params) ==
    CASE num_params = 2 -> "argv"
      [] num_params = 0 -> "none"
      [] OTHER -> "panic"

\* From the lookup of _main to its invocation, after the log l.
RunMain(l, path, args) ==
    LET l1 == Append(l, LookupEv(MAIN))
    IN IF MAIN \notin module.exports
       THEN /\ pc' = "done"
            /\ result' = [kind |-> "err", err |-> "resolve:_main"]
            /\ log' = l1
            /\ UNCHANGED <<memory, stack_ptr, marshal>>
       ELSE CASE MainDispatch(module.main_params) = "argv" ->
                   LET m == store_module_arguments(
                              [memory |-> memory, sp |-> stack_ptr, log |-> l1],
                              path, args)
                   IN /\ memory' = m.st.memory
                      /\ stack_ptr' = m.st.sp
                      /\ marshal' = [argc |-> m.argc, argv |-> m.argv]
                      /\ log' = Append(m.st.log,
                                       CallEv(MAIN, <<m.argc, m.argv>>, "running"))
                      /\ pc' = "in_main"
                      /\ result' = result
              [] MainDispatch(module.main_params) = "none" ->
                   /\ log' = Append(l1, CallEv(MAIN, <<>>, "running"))
                   /\ pc' = "in_main"
                   /\ UNCHANGED <<memory, stack_ptr, marshal, result>>
              [] OTHER ->
                   /\ pc' = "panic"
                   /\ result' = [kind |-> "panic", what |-> "incorrect number of params"]
                   /\ log' = l1
                   /\ UNCHANGED <<memory, stack_ptr, marshal>>

\* The launch up to its first invocation of a guest function.
RunEmscriptenInstance ==
    /\ pc = "instantiated"
    /\ \E path \in Strings, args \in ArgLists :
         /\ args_in' = [path |-> path, args |-> args]
         /\ LET new == EmscriptenDataNew(module.exports)
                l0 == [k \in 1 .. Len(new.lookups) |-> LookupEv(new.lookups[k])]
                l1 == Append(l0, LookupEv(CTOR))
            IN IF new.panic
               THEN /\ pc' = "panic"
                    /\ result' = [kind |-> "panic", what |-> "unwrap on a missing export"]
                    /\ log' = l0
                    /\ UNCHANGED <<emdata, memory, stack_ptr, marshal>>
               ELSE /\ emdata' = new.data
                    /\ IF CtorExported(module.exports)
                       THEN /\ log' = Append(l1, CallEv(CTOR, <<>>, "running"))
                            /\ pc' = "in_ctor"
                            /\ UNCHANGED <<memory, stack_ptr, marshal, result>>
                       ELSE RunMain(l1, path, args)
    /\ UNCHANGED <<static_bump, memory_min, data, import_object, registrations, module,
                   tokens, jump>>

\* The constructor returns: a failure ends the launch, success goes on to _main.
CtorReturns ==
    /\ pc = "in_ctor"
    /\ \E r \in GuestResults :
         IF Failed(r)
         THEN /\ pc' = "done"
              /\ result' = [kind |-> "err", err |-> r]
              /\ log' = Returned(log, r)
              /\ UNCHANGED <<memory, stack_ptr, marshal>>
         ELSE RunMain(Returned(log, r), args_in.path, args_in.args)
    /\ UNCHANGED <<static_bump, memory_min, data, import_object, registrations, module,
                   emdata, args_in, tokens, jump>>

\* _main returns: its failure is the launch's, its success ends in Ok(()).
MainReturns ==
    /\ pc = "in_main"
    /\ \E r \in GuestResults :
         /\ log' = Returned(log, r)
         /\ result' = IF Failed(r) THEN [kind |-> "err", err |-> r] ELSE [kind |-> "ok"]
         /\ pc' = "done"
    /\ UNCHANGED <<static_bump, memory_min, data, memory, import_object, registrations,
                   module, emdata, stack_ptr, args_in, marshal, tokens, jump>>

(***************************************************************************)
(* The jump-buffer table: __setjmp and __longjmp, called by the guest      *)
(* while the constructor or _main runs.                                    *)
(***************************************************************************)
\* Mark: a new buffer is pushed and its index is the token.
Setjmp ==
    /\ pc \in {"in_ctor", "in_main"}
    /\ Len(tokens) < MaxMarks
    /\ LET token == Len(emdata.jumps)
       IN /\ emdata' = [emdata EXCEPT !.jumps = Append(@, [mark |-> Len(tokens) + 1])]
          /\ tokens' = Append(tokens, token)
    /\ UNCHANGED <<pc, static_bump, memory_min, data, memory, import_object,
                   registrations, module, stack_ptr, args_in, log, marshal, result, jump>>

\* Jump: the token indexes the table; a token with no buffer is fatal.
Longjmp ==
    /\ pc \in {"in_ctor", "in_main"}
    /\ \E token \in 0 .. MaxMarks :
         IF token < Len(emdata.jumps)
         THEN /\ jump' = [token |-> token, fatal |-> FALSE,
                          mark |-> emdata.jumps[token + 1].mark]
              /\ UNCHANGED <<pc, result>>
         ELSE /\ jump' = [token |-> token, fatal |-> TRUE, mark |-> 0]
              /\ pc' = "panic_longjmp"
              /\ result' = [kind |-> "panic", what |-> "nonlocal jump without a mark"]
    /\ UNCHANGED <<static_bump, memory_min, data, memory, import_object, registrations,
                   module, emdata, stack_ptr, args_in, log, marshal, tokens>>

(***************************************************************************)
(* The specifications.                                                     *)
(***************************************************************************)
Next ==
    \/ EmscriptenGlobalsNew
    \/ GenerateEmscriptenEnv
    \/ Instantiate
    \/ RunEmscriptenInstance
    \/ CtorReturns
    \/ MainReturns
    \/ Setjmp
    \/ Longjmp

Spec == Init /\ [][Next]_vars

NextLayout == EmscriptenGlobalsNew

SpecLayout == InitLayout /\ [][NextLayout]_vars

(***************************************************************************)
(* The layout claims, checked under SpecLayout.                            *)
(***************************************************************************)
Aligned(p) == p % ALIGNMENT = 0

\* C1, as stated: for every non-negative static-data size the layout of
\* EmscriptenGlobals::new, with dynamic_base = align(stack_max), satisfies
\* static_base <= temp_double_ptr < dynamictop_ptr < stacktop < stack_max <
\* dynamic_base, the last inequality strict too.
C1_OrderingStrict ==
    pc = "booted" =>
        /\ STATIC_BASE <= data.temp_double_ptr
        /\ data.temp_double_ptr < data.dynamictop_ptr
        /\ data.dynamictop_ptr < data.stacktop
        /\ data.stacktop < data.stack_max
        /\ data.stack_max < SetUpDynamicBase(data)

\* C1, amended: static_base <= temp_double_ptr < dynamictop_ptr < stacktop <
\* stack_max <= dynamic_base, and the last two are equal: stack_max is already
\* a multiple of 16, so aligning it moves nothing.
C1_Ordering ==
    pc = "booted" =>
        /\ static_bump >= 0
        /\ STATIC_BASE <= data.temp_double_ptr
        /\ data.temp_double_ptr < data.dynamictop_ptr
        /\ data.dynamictop_ptr < data.stacktop
        /\ data.stacktop < data.stack_max
        /\ data.stack_max <= SetUpDynamicBase(data)
        /\ data.stack_max = SetUpDynamicBase(data)

\* C1's case: a layout computed for a static size that is no multiple of 16,
\* whose heap base coincides with the end of the stack.
C1_Witness ==
    /\ pc = "booted"
    /\ static_bump = 7
    /\ data.temp_double_ptr = STATIC_BASE + 7
    /\ data.stack_max = SetUpDynamicBase(data)

Bootstrapped == pc \in {"booted", "env", "instantiated", "link_error"}

\* The table of generate_emscripten_env exists.
EnvBuilt == pc \notin {"start", "panic_bootstrap", "booted"}

\* run_emscripten_instance has been entered.
Launched == pc \in {"in_ctor", "in_main", "done", "panic", "panic_longjmp"}

\* The places in the log l of the events that satisfy Test.
Places(l, Test(_)) == {k \in DOMAIN l : Test(l[k])}

IsCall(e, name) == e.op = "call" /\ e.name = name

IsLookup(e, name) == e.op = "lookup" /\ e.name = name

CtorCalls == Places(log, LAMBDA e : IsCall(e, CTOR))

MainCalls == Places(log, LAMBDA e : IsCall(e, MAIN))

StackAllocCalls == Places(log, LAMBDA e : IsCall(e, "stackAlloc"))

MainLookups == Places(log, LAMBDA e : IsLookup(e, MAIN))

\* C3: after bootstrap the 32-bit guest memory word of index dynamictop_ptr / 4
\* is align(stack_max), for the dynamictop_ptr and stack_max of the globals
\* data, which are the values the table exports as DYNAMICTOP_PTR and STACK_MAX.
C3_MemorySeeding ==
    /\ Bootstrapped =>
          GetU32(memory, data.dynamictop_ptr \div 4) = align_memory(data.stack_max)
    /\ (Bootstrapped /\ EnvBuilt) =>
          /\ import_object[<<"env", "DYNAMICTOP_PTR">>] = GlobalI32(data.dynamictop_ptr)
          /\ import_object[<<"env", "STACK_MAX">>] = GlobalI32(data.stack_max)
          /\ GetU32(memory, import_object[<<"env", "DYNAMICTOP_PTR">>].i32 \div 4)
               = align_memory(import_object[<<"env", "STACK_MAX">>].i32)

\* C3's case: the table is built and the seeded word holds the heap base that
\* follows from STATIC_BUMP.
C3_Witness ==
    /\ pc = "env"
    /\ data.dynamictop_ptr = 216576
    /\ GetU32(memory, 54144) = 5459472

\* C4: an entry point of two parameters is invoked with the (argc, argv) of
\* the argument marshaling; one of no parameters is invoked with no argument
\* and nothing is marshaled; for any other arity the launch ends in the
\* configuration panic and the entry point is never invoked.
C4_EntryArityDispatch ==
    (Launched /\ MAIN \in module.exports) =>
        /\ \A k \in MainCalls :
              /\ module.main_params \in {0, 2}
              /\ module.main_params = 2 =>
                    /\ marshal # NoData
                    /\ log[k].args = <<marshal.argc, marshal.argv>>
                    /\ marshal.argc = Len(args_in.args) + 1
                    /\ StackAllocCalls # {}
                    /\ \A a \in StackAllocCalls : a < k
              /\ module.main_params = 0 =>
                    /\ log[k].args = << >>
                    /\ marshal = NoData
                    /\ StackAllocCalls = {}
                    /\ memory = emscripten_set_up_memory(EmptyMemory, data)
        /\ (module.main_params \notin {0, 2} /\ MainLookups # {}) =>
              /\ pc = "panic"
              /\ result = [kind |-> "panic", what |-> "incorrect number of params"]
              /\ MainCalls = {}
              /\ marshal = NoData
        /\ (module.main_params \in {0, 2} /\ MainLookups # {}) => MainCalls # {}

\* C4's case: the entry point declares three parameters, the launch has
\* looked it up and has ended in the panic without invoking it.
C4_Witness ==
    /\ pc = "panic"
    /\ MAIN \in module.exports
    /\ module.main_params = 3
    /\ MainLookups # {}
    /\ MainCalls = {}

\* The bytes of s and a NUL are in memory from address p on.
CStrAt(mem, p, s) ==
    /\ \A j \in 1 .. Len(s) : ByteAt(mem, p + j - 1) = s[j]
    /\ ByteAt(mem, p + Len(s)) = 0

\* The u32 at byte address a.
U32At(mem, a) ==
    ByteAt(mem, a) + ByteAt(mem, a + 1) * 256 + ByteAt(mem, a + 2) * 65536
      + ByteAt(mem, a + 3) * 16777216

\* The stackAlloc calls of the log, in order.
StackAllocSeq == SelectSeq(log, LAMBDA e : IsCall(e, "stackAlloc"))

\* C5: marshaling returns argc = n + 1 and the address of a pointer array on
\* the guest stack whose slot 0 points to the NUL-terminated path, whose slot
\* i points to the NUL-terminated i-th argument, in input order, and whose
\* slot argc is 0; the strings are allocated and written path first, then the
\* arguments in input order, and the array is allocated last, with
\* (argc + 1) * 4 bytes.
C5_ArgumentMarshaling ==
    (pc = "in_main" /\ marshal # NoData) =>
        LET n == Len(args_in.args)
            strs == <<args_in.path>> \o args_in.args
            argc == marshal.argc
            argv == marshal.argv
            ptr(i) == U32At(memory, argv + 4 * i)
        IN /\ argc = n + 1
           /\ Len(StackAllocSeq) = argc + 1
           /\ \A i \in 1 .. argc : StackAllocSeq[i].args = <<Len(strs[i]) + 1>>
           /\ StackAllocSeq[argc + 1].args = <<(argc + 1) * 4>>
           /\ \A i \in 0 .. (argc - 1) :
                 /\ CStrAt(memory, ptr(i), strs[i + 1])
                 /\ ptr(i) >= data.stacktop
                 /\ ptr(i) + Len(strs[i + 1]) < argv
                 /\ i > 0 => ptr(i - 1) + Len(strs[i]) < ptr(i)
           /\ ptr(argc) = 0

\* C5's case: a path and two different arguments have been marshaled.
C5_Witness ==
    /\ pc = "in_main"
    /\ marshal # NoData
    /\ marshal.argc = 3
    /\ args_in.path = <<110>>
    /\ args_in.args = << <<45, 102>>, << >> >>
    /\ U32At(memory, marshal.argv + 12) = 0

\* EmscriptenData::new has returned: the launch is past the allocator handles.
PastDataNew == Launched /\ emdata # NoData

CtorLookups == Places(log, LAMBDA e : IsLookup(e, CTOR))

\* C6: if the module exports the environment constructor, the launch invokes
\* it exactly once, with no arguments, before _main is looked up, before any
\* argument is marshaled and before _main is invoked, and all of those happen
\* only after the constructor has returned successfully; if the module does
\* not export it, it is never invoked and the launch goes on to _main.
C6_ConstructorFirst ==
    PastDataNew =>
        IF CTOR \in module.exports
        THEN /\ Cardinality(CtorCalls) = 1
             /\ \A c \in CtorCalls :
                   /\ log[c].args = << >>
                   /\ \A k \in MainLookups \cup StackAllocCalls \cup MainCalls :
                         c < k /\ log[c].res = "ok"
                   /\ log[c].res # "ok" =>
                         /\ marshal = NoData
                         /\ MainLookups \cup StackAllocCalls \cup MainCalls = {}
        ELSE /\ CtorCalls = {}
             /\ pc # "in_ctor"
             /\ MainLookups # {}
             /\ \A c \in CtorLookups : \A k \in MainLookups : c < k

\* C6's case: the constructor has returned successfully and _main, entered
\* after it, is running with marshaled arguments.
C6_Witness ==
    /\ pc = "in_main"
    /\ CTOR \in module.exports
    /\ marshal # NoData
    /\ \E c \in CtorCalls : log[c].res = "ok" /\ \A k \in MainCalls : c < k

\* The calls of the constructor and of _main that failed.
FailedCalls ==
    Places(log, LAMBDA e : (IsCall(e, CTOR) \/ IsCall(e, MAIN)) /\ e.res \in GuestErrors)

\* C7: a failure of the constructor or of _main is the failure the launch
\* returns, unchanged; after it nothing more is asked of the guest (a failed
\* constructor means _main is never looked up nor invoked); neither function
\* is invoked more than once; the launch returns Ok only when every invocation
\* it made succeeded.
C7_FailurePropagation ==
    Launched =>
        /\ Cardinality(CtorCalls) <= 1
        /\ Cardinality(MainCalls) <= 1
        /\ \A k \in FailedCalls :
              /\ k = Len(log)
              /\ pc = "done"
              /\ result = [kind |-> "err", err |-> log[k].res]
              /\ IsCall(log[k], CTOR) => MainCalls = {} /\ MainLookups = {}
        /\ (pc = "done" /\ result.kind = "err" /\ result.err \in GuestErrors) =>
              FailedCalls = {Len(log)}
        /\ (pc = "done" /\ result.kind = "ok") =>
              /\ \A k \in DOMAIN log : log[k].op = "call" => log[k].res = "ok"
              /\ MainCalls # {}

\* C7's case: the constructor has failed and the launch has returned that
\* failure without asking for _main.
C7_Witness ==
    /\ pc = "done"
    /\ result = [kind |-> "err", err |-> "memory_out_of_bounds"]
    /\ \E c \in CtorCalls : log[c].res = "memory_out_of_bounds"
    /\ MainLookups = {}

\* The (namespace, name) pairs the imports! literal declares.
DeclaredKeys ==
    {KeyOf(Registrations(data)[i]) : i \in DOMAIN Registrations(data)}

\* Pairs that are near a declared one: a declared name under another
\* namespace, and names differing by case, by an underscore or by a digit.
NearMisses ==
    {<<"global", "pow">>, <<"env", "pow">>, <<"env", "NaN">>, <<"global", "f64-rem">>,
     <<"asm2wasm", "printf">>, <<"env", "Printf">>, <<"env", "_printf">>,
     <<"env", "___syscall2">>, <<"env", "__setjmp_">>, <<"Env", "memory">>,
     <<"global.math", "pow">>, <<"env", "">>}

\* C8: in the table of generate_emscripten_env every declared (namespace,
\* name) pair is registered exactly once and is bound to the implementation
\* its entry names; the table holds no other pair; a declared name resolves
\* under its own namespace only and a near-miss name does not resolve, so a
\* module instantiates exactly when each of its imports is a declared pair.
\* The table is consumed by the instantiation, so it is examined from its
\* construction to the end of the instantiation.
C8_ImportCompleteness ==
    pc \in {"env", "instantiated", "link_error"} =>
        LET regs == Registrations(data)
        IN /\ \A i \in DOMAIN regs :
                 /\ registrations[KeyOf(regs[i])] = 1
                 /\ Resolves(import_object, KeyOf(regs[i]))
                 /\ import_object[KeyOf(regs[i])] = regs[i].bind
           /\ DOMAIN import_object = DeclaredKeys
           /\ DOMAIN registrations = DeclaredKeys
           /\ Cardinality(DOMAIN import_object) = Len(regs)
           /\ \A k \in NearMisses : ~Resolves(import_object, k)
           /\ Resolves(import_object, <<"env", "f64-rem">>)
           /\ Resolves(import_object, <<"asm2wasm", "f64-rem">>)
           /\ pc = "link_error" =>
                 /\ result.unresolved = module.imports \ DeclaredKeys
                 /\ result.unresolved # {}
           /\ pc = "instantiated" => module.imports \subseteq DeclaredKeys

\* C8's case: the table is built and a module that imports a name of the
\* "global.Math" namespace under "global" has failed to instantiate.
C8_Witness ==
    /\ pc = "link_error"
    /\ result.unresolved = {<<"global", "pow">>}
    /\ Resolves(import_object, <<"global.Math", "pow">>)
    /\ registrations[<<"global.Math", "pow">>] = 1

\* C9: the jump-buffer table starts empty and only grows: the i-th mark
\* returns the token i - 1, the index of the buffer it pushed, so N marks give
\* N distinct tokens, and every token still indexes its own buffer after later
\* marks; a jump with a token no mark has produced ends in the fatal
\* nonlocal-jump error, never in a return.
C9_JumpTokens ==
    /\ PastDataNew =>
          /\ Len(emdata.jumps) = Len(tokens)
          /\ \A i \in DOMAIN tokens :
                /\ tokens[i] = i - 1
                /\ emdata.jumps[tokens[i] + 1] = [mark |-> i]
          /\ \A i, j \in DOMAIN tokens : i # j => tokens[i] # tokens[j]
          /\ (tokens = << >>) => emdata.jumps = << >>
    /\ jump # NoData =>
          LET produced == {tokens[i] : i \in DOMAIN tokens}
          IN /\ jump.fatal <=> jump.token \notin produced
             /\ jump.fatal =>
                   /\ pc = "panic_longjmp"
                   /\ result = [kind |-> "panic", what |-> "nonlocal jump without a mark"]
             /\ ~jump.fatal => tokens[jump.mark] = jump.token
    /\ pc = "panic_longjmp" => (jump # NoData /\ jump.fatal)

\* C9's case: three marks have been made and a jump with the token 3, which
\* none of them returned, has ended in the fatal error.
C9_Witness ==
    /\ pc = "panic_longjmp"
    /\ tokens = <<0, 1, 2>>
    /\ jump.token = 3
    /\ jump.fatal

RequiredHandles == {"_malloc", "_free", "_memset", "stackAlloc"}

\* C10: the launch starts by resolving malloc, free, memalign, memset and
\* stackAlloc by name, each once and before anything else; if one of malloc,
\* free, memset and stackAlloc is not exported the launch panics before the
\* constructor is looked up or invoked, before any argument is marshaled and
\* before _main is looked up or invoked; a missing memalign is recorded as
\* absent and the launch goes on.
C10_AllocatorHandles ==
    Launched =>
        /\ \A n \in RequiredHandles \cup {"_memalign"} :
              Cardinality(Places(log, LAMBDA e : IsLookup(e, n))) <= 1
        /\ \A k \in DOMAIN log :
              (log[k].op = "lookup" /\ log[k].name \in RequiredHandles \cup {"_memalign"})
                 => \A j \in 1 .. k : log[j].op = "lookup"
                                      /\ log[j].name \in RequiredHandles \cup {"_memalign"}
        /\ ~(RequiredHandles \subseteq module.exports) =>
              /\ pc = "panic"
              /\ result = [kind |-> "panic", what |-> "unwrap on a missing export"]
              /\ emdata = NoData
              /\ marshal = NoData
              /\ Calls(log) = << >>
              /\ CtorLookups = {}
              /\ MainLookups = {}
              /\ \E n \in RequiredHandles \ module.exports : log[Len(log)] = LookupEv(n)
        /\ RequiredHandles \subseteq module.exports =>
              /\ emdata # NoData
              /\ \A n \in RequiredHandles \cup {"_memalign"} :
                    Cardinality(Places(log, LAMBDA e : IsLookup(e, n))) = 1
              /\ emdata.memalign = (IF "_memalign" \in module.exports
                                    THEN "_memalign" ELSE "None")
              /\ CtorLookups # {}

\* C10's case: memalign is the one export missing and the launch has gone on
\* to run _main.
C10_Witness ==
    /\ pc = "in_main"
    /\ module.exports = AllExports \ {"_memalign"}
    /\ emdata.memalign = "None"
    /\ MainCalls # {}

(***************************************************************************)
(* The layout helpers of the file: dynamictop_ptr, stacktop, stack_max and *)
(* dynamic_base as functions of static_bump.                               *)
(***************************************************************************)
\* fn dynamictop_ptr(static_bump)
dynamictop_ptr(bump) == bump + DYNAMICTOP_PTR_DIFF

\* fn stacktop(static_bump)
stacktop(bump) == align_memory(dynamictop_ptr(bump) + 4)

\* fn stack_max(static_bump)
stack_max(bump) == stacktop(bump) + TOTAL_STACK

\* fn dynamic_base(static_bump)
dynamic_base(bump) == align_memory(stack_max(bump))

\* C11: the two layout computations agree: for the static_bump the layout was
\* computed for, the helpers dynamictop_ptr, stacktop, stack_max and
\* dynamic_base return the dynamictop_ptr, stacktop and stack_max fields of
\* EmscriptenGlobals::new and the dynamic_base that emscripten_set_up_memory
\* has written into guest memory.
C11_LayoutsAgree ==
    pc = "booted" =>
        /\ dynamictop_ptr(static_bump) = data.dynamictop_ptr
        /\ stacktop(static_bump) = data.stacktop
        /\ stack_max(static_bump) = data.stack_max
        /\ dynamic_base(static_bump) = GetU32(memory, data.dynamictop_ptr \div 4)

=============================================================================
